---- MODULE Spec2Model ----
(***************************************************************************)
(* Communication Intent & Risk Guard: the four-stage analysis pipeline     *)
(* (src/app.py, src/streamlit_app.py) and the agents' JSON extraction      *)
(* (src/agents/base_agent.py).                                             *)
(*                                                                         *)
(* Texts are TLA+ strings.  A TLA+ string literal cannot hold the grave    *)
(* accent U+0060, so the character "~" stands for it everywhere: "~~~" is  *)
(* the markdown fence and "~~~json" the labelled fence.  No text of the    *)
(* model uses "~" for anything else.                                       *)
(***************************************************************************)
EXTENDS Integers, Sequences, FiniteSets, TLC

(***************************************************************************)
(* Python values.  Every value is a record tagged by its Python type, each *)
(* type with its own payload field.                                        *)
(***************************************************************************)
PyDict(f) == [t |-> "dict", d |-> f]
PyList(q) == [t |-> "list", l |-> q]
PyStr(a) == [t |-> "str", s |-> a]
PyInt(k) == [t |-> "int", n |-> k]
PyBool(v) == [t |-> "bool", b |-> v]
PyNone == [t |-> "None"]

\* An exception in flight, by its class.
Raise(kind) == [t |-> "raise", kind |-> kind]

\* The empty mapping {}.
EmptyMap == <<>>

\* bool(v): Python truthiness.
Truthy(v) ==
  CASE v.t = "dict" -> DOMAIN v.d # {}
    [] v.t = "list" -> Len(v.l) > 0
    [] v.t = "str" -> v.s # ""
    [] v.t = "int" -> v.n # 0
    [] v.t = "bool" -> v.b
    [] OTHER -> FALSE

\* d.get(key, default) on a dict value d.
DictGet(v, key, default) == IF key \in DOMAIN v.d THEN v.d[key] ELSE default

(***************************************************************************)
(* str methods used by the code: strip, in, split.                         *)
(***************************************************************************)
Char(s, i) == SubSeq(s, i, i)

\* s[i-1:j] of Python: the characters i..j, cut to the text's ends.
Slice(s, i, j) ==
  LET hi == IF j > Len(s) THEN Len(s) ELSE j
  IN  IF i > hi THEN "" ELSE SubSeq(s, i, hi)

\* The characters str.strip() removes (the ASCII ones).
IsSpace(c) == c \in {" ", "\n", "\t", "\r"}

Strip(s) ==
  LET keep == {i \in 1..Len(s) : ~IsSpace(Char(s, i))}
  IN  IF keep = {} THEN ""
      ELSE LET lo == CHOOSE i \in keep : \A j \in keep : i <= j
               hi == CHOOSE i \in keep : \A j \in keep : j <= i
           IN  SubSeq(s, lo, hi)

\* str.find(sub, from), 1-based; 0 when sub does not occur at or after from.
Find(s, sub, from) ==
  LET hits == {i \in from..(Len(s) - Len(sub) + 1) : SubSeq(s, i, i + Len(sub) - 1) = sub}
  IN  IF hits = {} THEN 0 ELSE CHOOSE i \in hits : \A j \in hits : i <= j

\* sub in s
Contains(s, sub) == Find(s, sub, 1) # 0

\* s.split(sep): the pieces between the non-overlapping occurrences of sep,
\* scanned left to right.
RECURSIVE Split(_, _)
Split(s, sep) ==
  LET i == Find(s, sep, 1)
  IN  IF i = 0 THEN <<s>>
      ELSE <<Slice(s, 1, i - 1)>> \o Split(Slice(s, i + Len(sep), Len(s)), sep)

(***************************************************************************)
(* json.loads on the subset of JSON the model's texts use: objects,        *)
(* arrays, strings without escapes, integers, true, false, null.  A        *)
(* parser result is [ok, v, i]: the value and the index after it.          *)
(***************************************************************************)
Digits == {"0", "1", "2", "3", "4", "5", "6", "7", "8", "9"}

DigitVal(c) ==
  CASE c = "0" -> 0 [] c = "1" -> 1 [] c = "2" -> 2 [] c = "3" -> 3 [] c = "4" -> 4
    [] c = "5" -> 5 [] c = "6" -> 6 [] c = "7" -> 7 [] c = "8" -> 8 [] c = "9" -> 9

\* JSON whitespace
JsonWs(c) == c \in {" ", "\n", "\t", "\r"}

NoParse == [ok |-> FALSE]
Parsed(v, i) == [ok |-> TRUE, v |-> v, i |-> i]

SkipWs(s, i) ==
  LET stops == {j \in i..Len(s) : ~JsonWs(Char(s, j))}
  IN  IF stops = {} THEN Len(s) + 1 ELSE CHOOSE j \in stops : \A k \in stops : j <= k

\* A string token starting at the quote at i; no escape, no control character.
ParseString(s, i) ==
  LET close == Find(s, "\"", i + 1)
  IN  IF i > Len(s) \/ Char(s, i) # "\"" \/ close = 0 THEN NoParse
      ELSE LET body == Slice(s, i + 1, close - 1)
           IN  IF \E j \in 1..Len(body) : Char(body, j) \in {"\\", "\n", "\t", "\r"}
               THEN NoParse
               ELSE Parsed(body, close + 1)

RECURSIVE DigitsValue(_, _, _)
DigitsValue(s, i, acc) ==
  IF i <= Len(s) /\ Char(s, i) \in Digits
  THEN DigitsValue(s, i + 1, 10 * acc + DigitVal(Char(s, i)))
  ELSE Parsed(acc, i)

\* An integer token at i: -? (0 | [1-9][0-9]*); a following fraction or
\* exponent is outside the subset and fails.
ParseNumber(s, i) ==
  LET neg == i <= Len(s) /\ Char(s, i) = "-"
      j == IF neg THEN i + 1 ELSE i
  IN  IF j > Len(s) \/ Char(s, j) \notin Digits THEN NoParse
      ELSE LET r == IF Char(s, j) = "0" THEN Parsed(0, j + 1) ELSE DigitsValue(s, j, 0)
           IN  IF r.i <= Len(s) /\ Char(s, r.i) \in {".", "e", "E"} THEN NoParse
               ELSE Parsed(PyInt(IF neg THEN 0 - r.v ELSE r.v), r.i)

RECURSIVE ParseValue(_, _), ParseMembers(_, _, _), ParseElements(_, _, _)

\* The members of an object, from the key at i; acc holds the pairs read so
\* far (a repeated key keeps its last value).
ParseMembers(s, i, acc) ==
  LET k == ParseString(s, i)
  IN  IF ~k.ok THEN NoParse
      ELSE LET c == SkipWs(s, k.i)
           IN  IF c > Len(s) \/ Char(s, c) # ":" THEN NoParse
               ELSE LET v == ParseValue(s, SkipWs(s, c + 1))
                    IN  IF ~v.ok THEN NoParse
                        ELSE LET e == SkipWs(s, v.i)
                                 now == (k.v :> v.v) @@ acc
                             IN  IF e > Len(s) THEN NoParse
                                 ELSE IF Char(s, e) = "}" THEN Parsed(PyDict(now), e + 1)
                                 ELSE IF Char(s, e) = "," THEN ParseMembers(s, SkipWs(s, e + 1), now)
                                 ELSE NoParse

\* The elements of an array, from the value at i.
ParseElements(s, i, acc) ==
  LET v == ParseValue(s, i)
  IN  IF ~v.ok THEN NoParse
      ELSE LET e == SkipWs(s, v.i)
               now == Append(acc, v.v)
           IN  IF e > Len(s) THEN NoParse
               ELSE IF Char(s, e) = "]" THEN Parsed(PyList(now), e + 1)
               ELSE IF Char(s, e) = "," THEN ParseElements(s, SkipWs(s, e + 1), now)
               ELSE NoParse

ParseValue(s, i) ==
  IF i > Len(s) THEN NoParse
  ELSE LET c == Char(s, i)
       IN  IF c = "{" THEN
             LET j == SkipWs(s, i + 1)
             IN  IF j <= Len(s) /\ Char(s, j) = "}" THEN Parsed(PyDict(EmptyMap), j + 1)
                 ELSE ParseMembers(s, j, EmptyMap)
           ELSE IF c = "[" THEN
             LET j == SkipWs(s, i + 1)
             IN  IF j <= Len(s) /\ Char(s, j) = "]" THEN Parsed(PyList(<<>>), j + 1)
                 ELSE ParseElements(s, j, <<>>)
           ELSE IF c = "\"" THEN
             LET r == ParseString(s, i)
             IN  IF r.ok THEN Parsed(PyStr(r.v), r.i) ELSE NoParse
           ELSE IF c = "-" \/ c \in Digits THEN ParseNumber(s, i)
           ELSE IF Slice(s, i, i + 3) = "null" THEN Parsed(PyNone, i + 4)
           ELSE IF Slice(s, i, i + 3) = "true" THEN Parsed(PyBool(TRUE), i + 4)
           ELSE IF Slice(s, i, i + 4) = "false" THEN Parsed(PyBool(FALSE), i + 5)
           ELSE NoParse

\* json.loads(s): one value with only whitespace around it; ok = FALSE
\* stands for json.JSONDecodeError.
WholeText(s, r) == IF r.ok /\ SkipWs(s, r.i) > Len(s) THEN r ELSE NoParse

JsonLoads(s) == WholeText(s, ParseValue(s, SkipWs(s, 1)))

(***************************************************************************)
(* BaseAgent._parse_json_response                                          *)
(***************************************************************************)
Fence == "~~~"
JsonFence == "~~~json"

\* The text handed to json.loads: the content after the first labelled
\* fence, else after the first fence, up to the next fence; else the text.
Candidate(response_text) ==
  LET text == Strip(response_text)
  IN  IF Contains(text, JsonFence) THEN Split(Split(text, JsonFence)[2], Fence)[1]
      ELSE IF Contains(text, Fence) THEN Split(Split(text, Fence)[2], Fence)[1]
      ELSE text

\* ParseError with the stripped text kept as raw.
ParseErrorStripped(response_text) ==
  PyDict([error |-> PyStr("Failed to parse response"), raw |-> PyStr(Strip(response_text))])

\* Lines 38-39: the value of the except branch.
ParseError(response_text) ==
  PyDict([error |-> PyStr("Failed to parse response"), raw |-> PyStr(response_text)])

\* LoadedOrError without the try: the JSONDecodeError leaves the function.
LoadedOrRaise(r, response_text) == IF r.ok THEN r.v ELSE Raise("JSONDecodeError")

\* Lines 36-39: the loaded value, or the error value on JSONDecodeError.
LoadedOrError(r, response_text) == IF r.ok THEN r.v ELSE ParseError(response_text)

ParseJsonResponse(response_text) ==
  LoadedOrError(JsonLoads(Strip(Candidate(response_text))), response_text)

(***************************************************************************)
(* The completion service.  A call to it ends with a completion text or    *)
(* with a transport or authentication fault raised by the client.          *)
(***************************************************************************)
Completion(text) == [t |-> "completion", content |-> text]
APIError == Raise("APIError")

DefaultMaxTokens == 1000
LongMaxTokens == 1500

\* BaseAgent._call_api: one request, no retry; the fault is not caught.
CallApi(agent, prompt, max_tokens, outcome) ==
  [log |-> <<[ev |-> "request", agent |-> agent, prompt |-> prompt, max_tokens |-> max_tokens]>>
           \o (IF outcome.t = "raise" THEN <<>>
               ELSE <<[ev |-> "response", agent |-> agent, content |-> outcome.content]>>),
   out |-> IF outcome.t = "raise" THEN outcome ELSE PyStr(outcome.content)]

\* The end of every agent's analyze: the api call's text goes through
\* _parse_json_response and is returned; a fault of the call passes through.
\* What an agent's analyze leaves behind: the call, what the api call
\* logged, and the return or the raise; out is its value or its fault.
AgentTrace(agent, message, context, api_log, out) ==
  [log |-> <<[ev |-> "call", agent |-> agent, message |-> message, context |-> context]>>
           \o api_log
           \o <<IF out.t = "raise"
                THEN [ev |-> "raise", agent |-> agent, kind |-> out.kind]
                ELSE [ev |-> "return", agent |-> agent, value |-> out]>>,
   out |-> out]

AgentResult(agent, message, context, api) ==
  AgentTrace(agent, message, context, api.log,
             IF api.out.t = "raise" THEN api.out ELSE ParseJsonResponse(api.out.s))

\* IntentAgent.analyze
IntentAgentAnalyze(message, context, outcome) ==
  AgentResult("intent", message, context,
              CallApi("intent", [template |-> "intent.txt", message |-> message],
                      DefaultMaxTokens, outcome))

\* EmotionAgent.analyze
EmotionAgentAnalyze(message, context, outcome) ==
  AgentResult("emotion", message, context,
              CallApi("emotion", [template |-> "emotion.txt", message |-> message],
                      DefaultMaxTokens, outcome))

\* RiskAgent.analyze, lines 46-51: the context string, one line per part.
RiskContextStr(context) ==
  IF ~Truthy(context) THEN <<>>
  ELSE (IF "intent" \in DOMAIN context.d
        THEN <<[label |-> "Intent Analysis", value |-> context.d["intent"]]>> ELSE <<>>)
       \o (IF "emotion" \in DOMAIN context.d
           THEN <<[label |-> "Emotion Analysis", value |-> context.d["emotion"]]>> ELSE <<>>)

\* RiskAgent.analyze
RiskAgentAnalyze(message, context, outcome) ==
  AgentResult("risk", message, context,
              CallApi("risk", [template |-> "risk.txt", message |-> message,
                               context |-> RiskContextStr(context)],
                      LongMaxTokens, outcome))

\* A piece of context text: its lines, in order.
Text(q) == [t |-> "text", q |-> q]

\* RewriteAgent.analyze, lines 44-45: the intent line.
RewriteIntentPart(context) ==
  IF "intent" \notin DOMAIN context.d THEN Text(<<>>)
  ELSE LET intent == context.d["intent"]
       IN  IF intent.t # "dict" THEN Raise("AttributeError")
           ELSE Text(<<[label |-> "Detected Intent",
                        value |-> DictGet(intent, "primary_intent", PyStr("unknown"))]>>)

\* RewriteAgent.analyze, lines 46-50: the emotion lines.
RewriteEmotionPart(context) ==
  IF "emotion" \notin DOMAIN context.d THEN Text(<<>>)
  ELSE LET emo == context.d["emotion"]
       IN  IF emo.t # "dict" THEN Raise("AttributeError")
           ELSE LET tone == [label |-> "Emotional Tone",
                             value |-> DictGet(emo, "primary_emotion", PyStr("unknown")),
                             intensity |-> DictGet(emo, "intensity", PyStr("unknown"))]
                    leak == DictGet(emo, "emotional_leakage", PyDict(EmptyMap))
                IN  IF leak.t # "dict" THEN Raise("AttributeError")
                    ELSE IF Truthy(DictGet(leak, "detected", PyNone))
                    THEN Text(<<tone, [label |-> "Emotional Leakage",
                                       value |-> DictGet(leak, "explanation", PyStr(""))]>>)
                    ELSE Text(<<tone>>)

\* RewriteAgent.analyze, lines 54-57: the red-flag line; iterating a value
\* that is no list of mappings, or joining a phrase that is no text, faults.
RewriteFlagsPart(red_flags) ==
  IF ~Truthy(red_flags) THEN Text(<<>>)
  ELSE IF red_flags.t \in {"int", "bool"} THEN Raise("TypeError")
  ELSE IF red_flags.t \in {"str", "dict"} THEN Raise("AttributeError")
  ELSE IF \E i \in 1..Len(red_flags.l) : red_flags.l[i].t # "dict" THEN Raise("AttributeError")
  ELSE LET flags == [i \in 1..Len(red_flags.l) |-> DictGet(red_flags.l[i], "phrase", PyStr(""))]
       IN  IF \E i \in 1..Len(flags) : flags[i].t # "str" THEN Raise("TypeError")
           ELSE Text(<<[label |-> "Red Flags", value |-> PyList(flags)]>>)

\* RewriteAgent.analyze, lines 51-57: the risk lines.
RewriteRiskPart(context) ==
  IF "risk" \notin DOMAIN context.d THEN Text(<<>>)
  ELSE LET risk == context.d["risk"]
       IN  IF risk.t # "dict" THEN Raise("AttributeError")
           ELSE LET flags == RewriteFlagsPart(DictGet(risk, "red_flags", PyList(<<>>)))
                    score == [label |-> "Risk Score",
                              value |-> DictGet(risk, "overall_risk_score", PyStr("?"))]
                IN  IF flags.t = "raise" THEN flags ELSE Text(<<score>> \o flags.q)

\* RewriteAgent.analyze, lines 42-57: the context string, or the fault
\* raised while building it.
RewriteContextStr(context) ==
  IF ~Truthy(context) THEN Text(<<>>)
  ELSE LET a == RewriteIntentPart(context)
           b == RewriteEmotionPart(context)
           c == RewriteRiskPart(context)
       IN  IF a.t = "raise" THEN a
           ELSE IF b.t = "raise" THEN b
           ELSE IF c.t = "raise" THEN c
           ELSE Text(a.q \o b.q \o c.q)

\* RewriteAgent.analyze: a fault while building the context leaves before
\* any request is made.
RewriteAgentAnalyze(message, context, outcome) ==
  LET context_str == RewriteContextStr(context)
  IN  IF context_str.t = "raise"
      THEN [log |-> <<[ev |-> "call", agent |-> "rewrite", message |-> message, context |-> context],
                      [ev |-> "raise", agent |-> "rewrite", kind |-> context_str.kind]>>,
            out |-> context_str]
      ELSE AgentResult("rewrite", message, context,
                       CallApi("rewrite", [template |-> "rewrite.txt", message |-> message,
                                           context |-> context_str.q],
                               LongMaxTokens, outcome))

(***************************************************************************)
(* The gate of the rewrite stage: risk_score >= 4 on                       *)
(* results["risk"].get("overall_risk_score", 0).                           *)
(***************************************************************************)
RewriteThreshold == 4

\* results["risk"].get("overall_risk_score", 0): only a dict has get.
ScoreOf(risk) ==
  IF risk.t # "dict" THEN Raise("AttributeError")
  ELSE DictGet(risk, "overall_risk_score", PyInt(0))

\* AtLeast with > in place of >=.
AtLeastStrict(score, k) ==
  IF score.t = "int" THEN PyBool(score.n > k)
  ELSE IF score.t = "bool" THEN PyBool((IF score.b THEN 1 ELSE 0) > k)
  ELSE Raise("TypeError")

\* score >= k for a Python value: numbers compare (True is 1, False 0),
\* anything else against an int raises TypeError.
AtLeast(score, k) ==
  IF score.t = "int" THEN PyBool(score.n >= k)
  ELSE IF score.t = "bool" THEN PyBool((IF score.b THEN 1 ELSE 0) >= k)
  ELSE Raise("TypeError")

\* The gate's outcome: PyBool(open) or the fault raised while deciding.
GateOpen(risk) ==
  LET risk_score == ScoreOf(risk)
  IN  IF risk_score.t = "raise" THEN risk_score ELSE AtLeast(risk_score, RewriteThreshold)

(***************************************************************************)
(* The risk-score bands of the two renderers.                              *)
(***************************************************************************)
LowMax == 3
MediumMax == 6

\* score <= k for a Python value: numbers compare (True is 1, False 0),
\* anything else against an int raises TypeError.
AtMost(score, k) ==
  IF score.t = "int" THEN PyBool(score.n <= k)
  ELSE IF score.t = "bool" THEN PyBool((IF score.b THEN 1 ELSE 0) <= k)
  ELSE Raise("TypeError")

\* The if / elif / else chain on score <= 3, score <= 6 that the three band
\* selections share, with the value each branch gives.
BandChain(score, low, medium, high) ==
  IF AtMost(score, LowMax).t = "raise" THEN AtMost(score, LowMax)
  ELSE IF AtMost(score, LowMax).b THEN PyStr(low)
  ELSE IF AtMost(score, MediumMax).b THEN PyStr(medium)
  ELSE PyStr(high)

\* app.py, get_risk_color
GetRiskColor(score) == BandChain(score, "green", "yellow", "red")

\* DashboardGetRiskColor with < in place of <= in both tests.
DashboardGetRiskColorStrict(score) ==
  IF AtMost(score, LowMax - 1).t = "raise" THEN AtMost(score, LowMax - 1)
  ELSE IF AtMost(score, LowMax - 1).b THEN PyStr("low")
  ELSE IF AtMost(score, MediumMax - 1).b THEN PyStr("medium")
  ELSE PyStr("high")

\* streamlit_app.py, get_risk_color
DashboardGetRiskColor(score) == BandChain(score, "low", "medium", "high")

\* streamlit_app.py, main, lines 291-296: the header banner, named by the
\* widget that shows it (st.success: low, st.warning: medium, st.error: high).
HeaderBanner(risk_score) == BandChain(risk_score, "success", "warning", "error")

\* str.lower() on ASCII letters.
UpperCase == "ABCDEFGHIJKLMNOPQRSTUVWXYZ"
LowerCase == "abcdefghijklmnopqrstuvwxyz"

LowerChar(c) ==
  LET at == Find(UpperCase, c, 1)
  IN  IF at = 0 THEN c ELSE Char(LowerCase, at)

RECURSIVE Lower(_)
Lower(s) == IF s = "" THEN "" ELSE LowerChar(Char(s, 1)) \o Lower(Slice(s, 2, Len(s)))

\* main, lines 274-278: the messages of a file's content.
RECURSIVE NonEmptyStripped(_)
NonEmptyStripped(parts) ==
  IF parts = <<>> THEN <<>>
  ELSE (IF Strip(Head(parts)) # "" THEN <<Strip(Head(parts))>> ELSE <<>>)
       \o NonEmptyStripped(Tail(parts))

FileMessages(content) == NonEmptyStripped(Split(Strip(content), "---"))

(***************************************************************************)
(* The renderers.  A rendering is the widgets put on the screen, in order, *)
(* and the class of the exception that ended it ("none": it returned).     *)
(* A widget is one print / st.* call: the section it belongs to, what it   *)
(* is, and the values it shows.                                            *)
(***************************************************************************)
Shown(widgets) == [shown |-> widgets, fault |-> "none"]
Faulted(kind) == [shown |-> <<>>, fault |-> kind]
Widget(section, w, args) == Shown(<<[section |-> section, w |-> w, args |-> args]>>)

\* Statements in sequence: the widgets up to the first fault, and that fault.
RECURSIVE Chain(_)
Chain(parts) ==
  IF Len(parts) = 0 THEN Shown(<<>>)
  ELSE IF Head(parts).fault # "none" THEN Head(parts)
  ELSE [shown |-> Head(parts).shown \o Chain(Tail(parts)).shown,
        fault |-> Chain(Tail(parts)).fault]

\* key in v, for a text key.
In(key, v) ==
  CASE v.t = "dict" -> PyBool(key \in DOMAIN v.d)
    [] v.t = "list" -> PyBool(\E i \in 1..Len(v.l) : v.l[i].t = "str" /\ v.l[i].s = key)
    [] v.t = "str" -> PyBool(Contains(v.s, key))
    [] OTHER -> Raise("TypeError")

UpperChar(c) ==
  LET at == Find(LowerCase, c, 1)
  IN  IF at = 0 THEN c ELSE Char(UpperCase, at)

\* str.upper() on ASCII letters.
RECURSIVE Upper(_)
Upper(s) == IF s = "" THEN "" ELSE UpperChar(Char(s, 1)) \o Upper(Slice(s, 2, Len(s)))

\* str.title() on ASCII letters: a letter after a letter is lowered, any
\* other letter is raised.
RECURSIVE TitleFrom(_, _)
TitleFrom(s, after_letter) ==
  IF s = "" THEN ""
  ELSE (IF after_letter THEN LowerChar(Char(s, 1)) ELSE UpperChar(Char(s, 1)))
       \o TitleFrom(Slice(s, 2, Len(s)), UpperChar(Char(s, 1)) # LowerChar(Char(s, 1)))

\* v.upper(), v.title(): only a str has them.
UpperOf(v) == IF v.t = "str" THEN PyStr(Upper(v.s)) ELSE Raise("AttributeError")
TitleOf(v) == IF v.t = "str" THEN PyStr(TitleFrom(v.s, FALSE)) ELSE Raise("AttributeError")

\* The keys of a mapping as a sequence.  json.loads keeps the members'
\* order; a PyDict does not, and the keys come in one fixed order.
RECURSIVE KeySeq(_)
KeySeq(keys) ==
  IF keys = {} THEN <<>>
  ELSE LET k == CHOOSE k \in keys : TRUE IN <<PyStr(k)>> \o KeySeq(keys \ {k})

\* iter(v): the elements of a list, the characters of a str, the keys of a
\* dict; nothing else the parser returns is iterable.
Iterate(v) ==
  CASE v.t = "list" -> Text(v.l)
    [] v.t = "str" -> Text([i \in 1..Len(v.s) |-> PyStr(Char(v.s, i))])
    [] v.t = "dict" -> Text(KeySeq(DOMAIN v.d))
    [] OTHER -> Raise("TypeError")

\* v[:n]: a list or a str has slices; a dict, a number or None raises
\* (TypeError; for a dict KeyError on interpreters with hashable slices).
SliceTo(v, n) ==
  CASE v.t = "list" -> PyList(SubSeq(v.l, 1, IF Len(v.l) < n THEN Len(v.l) ELSE n))
    [] v.t = "str" -> PyStr(Slice(v.s, 1, n))
    [] v.t = "raise" -> v
    [] OTHER -> Raise("TypeError")

RECURSIVE JoinTexts(_)
JoinTexts(q) ==
  IF Len(q) = 0 THEN ""
  ELSE IF Len(q) = 1 THEN q[1].s
  ELSE q[1].s \o ", " \o JoinTexts(Tail(q))

\* ', '.join(v): v must be iterable and hold only texts.
Join(v) ==
  IF Iterate(v).t = "raise" THEN Iterate(v)
  ELSE IF \E i \in 1..Len(Iterate(v).q) : Iterate(v).q[i].t # "str" THEN Raise("TypeError")
  ELSE PyStr(JoinTexts(Iterate(v).q))

\* A widget showing ', '.join(v).
JoinedWidget(section, w, v) ==
  IF Join(v).t = "raise" THEN Faulted(Join(v).kind) ELSE Widget(section, w, <<Join(v)>>)

\* A widget shown when v is truthy.
WidgetIf(section, w, v) == IF Truthy(v) THEN Widget(section, w, <<v>>) ELSE Shown(<<>>)

\* The items a for loop over items visits (none when it cannot start).
Elements(items) == IF Iterate(items).t = "raise" THEN <<>> ELSE Iterate(items).q

\* for item in items: ..., where rows holds what the body does for each
\* element; items may be the fault raised while it was computed.
Each(items, rows) ==
  IF items.t = "raise" THEN Faulted(items.kind)
  ELSE IF Iterate(items).t = "raise" THEN Faulted(Iterate(items).kind)
  ELSE Chain(rows)

\* A row that reads item with get: the widget, or AttributeError when item
\* is no mapping.
RowOf(section, w, item, keys) ==
  IF item.t # "dict" THEN Faulted("AttributeError")
  ELSE Widget(section, w, [i \in 1..Len(keys) |-> DictGet(item, keys[i][1], keys[i][2])])

\* for item in items: a widget showing the item.
EachShown(section, w, items) ==
  Each(items, [i \in 1..Len(Elements(items)) |-> Widget(section, w, <<Elements(items)[i]>>)])

\* for item in items: a row reading the item with get.
EachRowOf(section, w, items, keys) ==
  Each(items, [i \in 1..Len(Elements(items)) |-> RowOf(section, w, Elements(items)[i], keys)])

(***************************************************************************)
(* app.py: display_results, the terminal renderer.                         *)
(***************************************************************************)
MessagePreview == 100

\* get_severity_style
GetSeverityStyle(severity) ==
  IF severity.t # "str" THEN Raise("AttributeError")
  ELSE CASE Lower(severity.s) = "low" -> PyStr("green")
         [] Lower(severity.s) = "medium" -> PyStr("yellow")
         [] Lower(severity.s) = "high" -> PyStr("red")
         [] OTHER -> PyStr("white")

\* display_results, lines 84-100: the message panel (message[:100] and the
\* dots after a longer one) and the score panel, coloured by the band of a
\* score that is an int (isinstance: a bool is one) and white otherwise.
TerminalHeader(message, risk) ==
  IF risk.t # "dict" THEN Faulted("AttributeError")
  ELSE Chain(<<Widget("message", "panel",
                      <<PyStr(Slice(message, 1, MessagePreview)
                              \o (IF Len(message) > MessagePreview THEN "..." ELSE ""))>>),
               IF DictGet(risk, "risk_level", PyStr("unknown")).t # "str"
               THEN Faulted("AttributeError")
               ELSE Widget("header", "score",
                           <<IF DictGet(risk, "overall_risk_score", PyStr("?")).t \in {"int", "bool"}
                             THEN GetRiskColor(DictGet(risk, "overall_risk_score", PyStr("?")))
                             ELSE PyStr("white"),
                             DictGet(risk, "overall_risk_score", PyStr("?")),
                             UpperOf(DictGet(risk, "risk_level", PyStr("unknown")))>>)>>)

\* display_results, lines 103-114: the section is printed for a result
\* without the key error, and nothing is printed for one with it.
TerminalIntent(intent) ==
  IF In("error", intent).t = "raise" THEN Faulted(In("error", intent).kind)
  ELSE IF In("error", intent).b THEN Shown(<<>>)
  ELSE IF intent.t # "dict" THEN Chain(<<Widget("intent", "heading", <<>>), Faulted("AttributeError")>>)
  ELSE Chain(<<Widget("intent", "heading", <<>>),
               Widget("intent", "primary", <<DictGet(intent, "primary_intent", PyStr("Unknown"))>>),
               IF Truthy(DictGet(intent, "secondary_intents", PyList(<<>>)))
               THEN JoinedWidget("intent", "secondary", DictGet(intent, "secondary_intents", PyList(<<>>)))
               ELSE Shown(<<>>),
               Widget("intent", "confidence", <<DictGet(intent, "confidence", PyStr("Unknown"))>>),
               Widget("intent", "explanation", <<DictGet(intent, "explanation", PyStr(""))>>),
               WidgetIf("intent", "hidden_agenda", DictGet(intent, "hidden_agenda", PyNone))>>)

\* display_results, lines 132-142
TerminalLeakage(leakage) ==
  IF leakage.t # "dict" THEN Faulted("AttributeError")
  ELSE IF ~Truthy(DictGet(leakage, "detected", PyNone)) THEN Shown(<<>>)
  ELSE Chain(<<Widget("emotion", "leakage", <<>>),
               IF Truthy(DictGet(leakage, "leaked_emotions", PyList(<<>>)))
               THEN JoinedWidget("emotion", "leaked", DictGet(leakage, "leaked_emotions", PyList(<<>>)))
               ELSE Shown(<<>>),
               EachShown("emotion", "indicator",
                         SliceTo(DictGet(leakage, "indicators", PyList(<<>>)), 3)),
               Widget("emotion", "leakage_explanation",
                      <<DictGet(leakage, "explanation", PyStr(""))>>)>>)

\* display_results, lines 117-142
TerminalEmotion(emotion) ==
  IF In("error", emotion).t = "raise" THEN Faulted(In("error", emotion).kind)
  ELSE IF In("error", emotion).b THEN Shown(<<>>)
  ELSE IF emotion.t # "dict" THEN Chain(<<Widget("emotion", "heading", <<>>), Faulted("AttributeError")>>)
  ELSE Chain(<<Widget("emotion", "heading", <<>>),
               Widget("emotion", "primary", <<DictGet(emotion, "primary_emotion", PyStr("Unknown")),
                                              DictGet(emotion, "intensity", PyStr("Unknown"))>>),
               IF Truthy(DictGet(emotion, "secondary_emotions", PyList(<<>>)))
               THEN JoinedWidget("emotion", "secondary", DictGet(emotion, "secondary_emotions", PyList(<<>>)))
               ELSE Shown(<<>>),
               IF Truthy(DictGet(emotion, "tone_descriptors", PyList(<<>>)))
               THEN JoinedWidget("emotion", "tone", DictGet(emotion, "tone_descriptors", PyList(<<>>)))
               ELSE Shown(<<>>),
               TerminalLeakage(DictGet(emotion, "emotional_leakage", PyDict(EmptyMap)))>>)

\* display_results, lines 158-166: one row of the risk table.
TerminalRiskRow(r) ==
  IF r.t # "dict" THEN Faulted("AttributeError")
  ELSE IF SliceTo(DictGet(r, "risk", PyStr("")), 25).t = "raise" THEN Faulted("TypeError")
  ELSE IF SliceTo(DictGet(r, "problematic_phrase", PyStr("")), 18).t = "raise" THEN Faulted("TypeError")
  ELSE IF DictGet(r, "probability", PyStr("?")).t # "str" THEN Faulted("AttributeError")
  ELSE IF DictGet(r, "impact", PyStr("?")).t # "str" THEN Faulted("AttributeError")
  ELSE Widget("risk", "row",
              <<SliceTo(DictGet(r, "risk", PyStr("")), 25),
                SliceTo(DictGet(r, "problematic_phrase", PyStr("")), 18),
                UpperOf(DictGet(r, "probability", PyStr("?"))),
                GetSeverityStyle(DictGet(r, "probability", PyStr("?"))),
                UpperOf(DictGet(r, "impact", PyStr("?"))),
                GetSeverityStyle(DictGet(r, "impact", PyStr("?")))>>)

\* display_results, lines 147-168: the table is printed after its last row.
TerminalRisksTable(risks_list) ==
  IF ~Truthy(risks_list) THEN Shown(<<>>)
  ELSE LET rows == Each(SliceTo(risks_list, 5),
                        [i \in 1..Len(Elements(SliceTo(risks_list, 5))) |->
                           TerminalRiskRow(Elements(SliceTo(risks_list, 5))[i])])
       IN  Chain(<<Widget("risk", "risks_heading", <<>>),
                   IF rows.fault # "none" THEN Faulted(rows.fault)
                   ELSE Widget("risk", "table", rows.shown)>>)

\* display_results, lines 176-183: one red flag.
TerminalFlag(flag) ==
  IF flag.t # "dict" THEN Faulted("AttributeError")
  ELSE IF GetSeverityStyle(DictGet(flag, "severity", PyStr("medium"))).t = "raise"
  THEN Faulted("AttributeError")
  ELSE Widget("risk", "flag",
              <<GetSeverityStyle(DictGet(flag, "severity", PyStr("medium"))),
                DictGet(flag, "phrase", PyStr("")),
                DictGet(flag, "why_problematic", PyStr("")),
                DictGet(flag, "category", PyStr(""))>>)

\* display_results, lines 171-183
TerminalRedFlags(red_flags) ==
  IF ~Truthy(red_flags) THEN Shown(<<>>)
  ELSE Chain(<<Widget("risk", "flags_heading", <<>>),
               Each(SliceTo(red_flags, 5),
                    [i \in 1..Len(Elements(SliceTo(red_flags, 5))) |->
                       TerminalFlag(Elements(SliceTo(red_flags, 5))[i])])>>)

\* display_results, lines 186-191
TerminalAmbiguities(ambiguities) ==
  IF ~Truthy(ambiguities) THEN Shown(<<>>)
  ELSE Chain(<<Widget("risk", "ambiguities_heading", <<>>),
               EachShown("risk", "ambiguity", SliceTo(ambiguities, 3))>>)

\* display_results, lines 145-191
TerminalRisk(risk) ==
  IF In("error", risk).t = "raise" THEN Faulted(In("error", risk).kind)
  ELSE IF In("error", risk).b THEN Shown(<<>>)
  ELSE IF risk.t # "dict" THEN Faulted("AttributeError")
  ELSE Chain(<<TerminalRisksTable(DictGet(risk, "misinterpretation_risks", PyList(<<>>))),
               TerminalRedFlags(DictGet(risk, "red_flags", PyList(<<>>))),
               TerminalAmbiguities(DictGet(risk, "ambiguities", PyList(<<>>)))>>)

\* display_results, lines 199-205: one rewrite panel.
TerminalRewritePanel(rw) ==
  IF rw.t # "dict" THEN Faulted("AttributeError")
  ELSE IF TitleOf(DictGet(rw, "version", PyStr("Alternative"))).t = "raise"
  THEN Faulted("AttributeError")
  ELSE Widget("rewrite", "panel",
              <<DictGet(rw, "rewritten_message", PyStr("")),
                DictGet(rw, "tone_shift", PyStr("")),
                TitleOf(DictGet(rw, "version", PyStr("Alternative")))>>)

\* display_results, lines 208-216
TerminalFixes(fixes) ==
  IF ~Truthy(fixes) THEN Shown(<<>>)
  ELSE Chain(<<Widget("rewrite", "fixes_heading", <<>>),
               EachRowOf("rewrite", "fix", SliceTo(fixes, 3),
                         <<<<"original_phrase", PyStr("")>>,
                           <<"suggested_phrase", PyStr("")>>,
                           <<"reason", PyStr("")>>>>)>>)

\* display_results, lines 194-221: rewrite and "error" not in rewrite and
\* rewrite.get("needs_rewrite")
TerminalRewrite(rewrite) ==
  IF ~Truthy(rewrite) THEN Shown(<<>>)
  ELSE IF In("error", rewrite).t = "raise" THEN Faulted(In("error", rewrite).kind)
  ELSE IF In("error", rewrite).b THEN Shown(<<>>)
  ELSE IF rewrite.t # "dict" THEN Faulted("AttributeError")
  ELSE IF ~Truthy(DictGet(rewrite, "needs_rewrite", PyNone)) THEN Shown(<<>>)
  ELSE Chain(<<Widget("rewrite", "heading", <<>>),
               Each(SliceTo(DictGet(rewrite, "rewrites", PyList(<<>>)), 2),
                    [i \in 1..Len(Elements(SliceTo(DictGet(rewrite, "rewrites", PyList(<<>>)), 2))) |->
                       TerminalRewritePanel(
                         Elements(SliceTo(DictGet(rewrite, "rewrites", PyList(<<>>)), 2))[i])]),
               TerminalFixes(DictGet(rewrite, "specific_fixes", PyList(<<>>))),
               WidgetIf("rewrite", "advice", DictGet(rewrite, "general_advice", PyNone))>>)

\* display_results
DisplayResults(message, res) ==
  Chain(<<TerminalHeader(message, DictGet(PyDict(res), "risk", PyDict(EmptyMap))),
          TerminalIntent(DictGet(PyDict(res), "intent", PyDict(EmptyMap))),
          TerminalEmotion(DictGet(PyDict(res), "emotion", PyDict(EmptyMap))),
          TerminalRisk(DictGet(PyDict(res), "risk", PyDict(EmptyMap))),
          TerminalRewrite(DictGet(PyDict(res), "rewrite", PyDict(EmptyMap)))>>)

(***************************************************************************)
(* streamlit_app.py: the dashboard's renderer.                             *)
(***************************************************************************)
\* A widget showing v.upper().
UpperWidget(section, w, v) ==
  IF UpperOf(v).t = "raise" THEN Faulted(UpperOf(v).kind) ELSE Widget(section, w, <<UpperOf(v)>>)

\* st.error(f"... error: {stage['error']}"): the notice of a degraded stage.
ErrorNotice(section, stage) == Widget(section, "error", <<stage.d["error"]>>)

\* display_intent
DisplayIntent(intent) ==
  IF In("error", intent).t = "raise" THEN Faulted(In("error", intent).kind)
  ELSE IF In("error", intent).b
  THEN (IF intent.t = "dict" THEN ErrorNotice("intent", intent) ELSE Faulted("TypeError"))
  ELSE IF intent.t # "dict" THEN Faulted("AttributeError")
  ELSE Chain(<<Widget("intent", "primary", <<DictGet(intent, "primary_intent", PyStr("Unknown"))>>),
               UpperWidget("intent", "confidence", DictGet(intent, "confidence", PyStr("Unknown"))),
               IF Truthy(DictGet(intent, "secondary_intents", PyList(<<>>)))
               THEN JoinedWidget("intent", "secondary", DictGet(intent, "secondary_intents", PyList(<<>>)))
               ELSE Shown(<<>>),
               Widget("intent", "explanation", <<DictGet(intent, "explanation", PyStr(""))>>),
               WidgetIf("intent", "hidden_agenda", DictGet(intent, "hidden_agenda", PyNone))>>)

\* display_emotion, lines 119-136
DisplayLeakage(leakage) ==
  IF leakage.t # "dict" THEN Faulted("AttributeError")
  ELSE IF ~Truthy(DictGet(leakage, "detected", PyNone)) THEN Shown(<<>>)
  ELSE Chain(<<Widget("emotion", "leakage", <<>>),
               IF Truthy(DictGet(leakage, "leaked_emotions", PyList(<<>>)))
               THEN JoinedWidget("emotion", "leaked", DictGet(leakage, "leaked_emotions", PyList(<<>>)))
               ELSE Shown(<<>>),
               IF Truthy(DictGet(leakage, "indicators", PyList(<<>>)))
               THEN Chain(<<Widget("emotion", "indicators_heading", <<>>),
                            EachShown("emotion", "indicator",
                                      DictGet(leakage, "indicators", PyList(<<>>)))>>)
               ELSE Shown(<<>>),
               Widget("emotion", "leakage_explanation",
                      <<DictGet(leakage, "explanation", PyStr(""))>>)>>)

\* display_emotion
DisplayEmotion(emotion) ==
  IF In("error", emotion).t = "raise" THEN Faulted(In("error", emotion).kind)
  ELSE IF In("error", emotion).b
  THEN (IF emotion.t = "dict" THEN ErrorNotice("emotion", emotion) ELSE Faulted("TypeError"))
  ELSE IF emotion.t # "dict" THEN Faulted("AttributeError")
  ELSE Chain(<<Widget("emotion", "primary", <<DictGet(emotion, "primary_emotion", PyStr("Unknown"))>>),
               UpperWidget("emotion", "intensity", DictGet(emotion, "intensity", PyStr("Unknown"))),
               IF Truthy(DictGet(emotion, "secondary_emotions", PyList(<<>>)))
               THEN JoinedWidget("emotion", "secondary", DictGet(emotion, "secondary_emotions", PyList(<<>>)))
               ELSE Shown(<<>>),
               IF Truthy(DictGet(emotion, "tone_descriptors", PyList(<<>>)))
               THEN JoinedWidget("emotion", "tone", DictGet(emotion, "tone_descriptors", PyList(<<>>)))
               ELSE Shown(<<>>),
               DisplayLeakage(DictGet(emotion, "emotional_leakage", PyDict(EmptyMap)))>>)

\* display_risk, lines 145-152: the score in the class of its band.
DisplayRiskScore(score, level) ==
  IF DashboardGetRiskColor(score).t = "raise" THEN Faulted(DashboardGetRiskColor(score).kind)
  ELSE IF UpperOf(level).t = "raise" THEN Faulted(UpperOf(level).kind)
  ELSE Widget("risk", "score", <<DashboardGetRiskColor(score), score, UpperOf(level)>>)

\* display_risk, lines 159-168: one misinterpretation risk.
DisplayRiskRow(r) ==
  IF r.t # "dict" THEN Faulted("AttributeError")
  ELSE Chain(<<Widget("risk", "expander", <<DictGet(r, "risk", PyStr("Risk"))>>),
               UpperWidget("risk", "probability", DictGet(r, "probability", PyStr("?"))),
               UpperWidget("risk", "impact", DictGet(r, "impact", PyStr("?"))),
               Widget("risk", "phrase", <<DictGet(r, "problematic_phrase", PyStr(""))>>),
               Widget("risk", "explanation", <<DictGet(r, "explanation", PyStr(""))>>)>>)

\* display_risk, lines 155-168
DisplayRisksList(risks_list) ==
  IF ~Truthy(risks_list) THEN Shown(<<>>)
  ELSE Chain(<<Widget("risk", "risks_heading", <<>>), 
               Each(risks_list, [i \in 1..Len(Elements(risks_list)) |->
                                   DisplayRiskRow(Elements(risks_list)[i])])>>)

\* display_risk, lines 171-180
DisplayRedFlags(red_flags) ==
  IF ~Truthy(red_flags) THEN Shown(<<>>)
  ELSE Chain(<<Widget("risk", "flags_heading", <<>>),
               EachRowOf("risk", "flag", red_flags,
                         <<<<"phrase", PyStr("")>>,
                           <<"why_problematic", PyStr("")>>,
                           <<"category", PyStr("")>>>>)>>)

\* display_risk, lines 183-187
DisplayAmbiguities(ambiguities) ==
  IF ~Truthy(ambiguities) THEN Shown(<<>>)
  ELSE Chain(<<Widget("risk", "ambiguities_heading", <<>>),
               EachShown("risk", "ambiguity", ambiguities)>>)

\* display_risk
DisplayRisk(risk) ==
  IF In("error", risk).t = "raise" THEN Faulted(In("error", risk).kind)
  ELSE IF In("error", risk).b
  THEN (IF risk.t = "dict" THEN ErrorNotice("risk", risk) ELSE Faulted("TypeError"))
  ELSE IF risk.t # "dict" THEN Faulted("AttributeError")
  ELSE Chain(<<DisplayRiskScore(DictGet(risk, "overall_risk_score", PyInt(0)),
                                DictGet(risk, "risk_level", PyStr("unknown"))),
               DisplayRisksList(DictGet(risk, "misinterpretation_risks", PyList(<<>>))),
               DisplayRedFlags(DictGet(risk, "red_flags", PyList(<<>>))),
               DisplayAmbiguities(DictGet(risk, "ambiguities", PyList(<<>>)))>>)

\* display_rewrite, lines 203-215: one version.
DisplayRewriteVersion(rw) ==
  IF rw.t # "dict" THEN Faulted("AttributeError")
  ELSE IF TitleOf(DictGet(rw, "version", PyStr("Alternative"))).t = "raise"
  THEN Faulted("AttributeError")
  ELSE Chain(<<Widget("rewrite", "version", <<TitleOf(DictGet(rw, "version", PyStr("Alternative")))>>),
               Widget("rewrite", "rewritten", <<DictGet(rw, "rewritten_message", PyStr(""))>>),
               IF Truthy(DictGet(rw, "changes_made", PyList(<<>>)))
               THEN Chain(<<Widget("rewrite", "changes_heading", <<>>),
                            EachShown("rewrite", "change", DictGet(rw, "changes_made", PyList(<<>>)))>>)
               ELSE Shown(<<>>),
               Widget("rewrite", "tone_shift", <<DictGet(rw, "tone_shift", PyStr(""))>>)>>)

\* display_rewrite, lines 218-228
DisplayFixes(fixes) ==
  IF ~Truthy(fixes) THEN Shown(<<>>)
  ELSE Chain(<<Widget("rewrite", "fixes_heading", <<>>),
               EachRowOf("rewrite", "fix", fixes,
                         <<<<"original_phrase", PyStr("")>>,
                           <<"suggested_phrase", PyStr("")>>,
                           <<"reason", PyStr("")>>>>)>>)

\* display_rewrite
DisplayRewrite(rewrite) ==
  IF In("error", rewrite).t = "raise" THEN Faulted(In("error", rewrite).kind)
  ELSE IF In("error", rewrite).b
  THEN (IF rewrite.t = "dict" THEN ErrorNotice("rewrite", rewrite) ELSE Faulted("TypeError"))
  ELSE IF rewrite.t # "dict" THEN Faulted("AttributeError")
  ELSE IF ~Truthy(DictGet(rewrite, "needs_rewrite", PyNone))
  THEN Widget("rewrite", "looks_good", <<>>)
  ELSE Chain(<<IF Truthy(DictGet(rewrite, "rewrites", PyList(<<>>)))
               THEN Each(DictGet(rewrite, "rewrites", PyList(<<>>)),
                         [i \in 1..Len(Elements(DictGet(rewrite, "rewrites", PyList(<<>>)))) |->
                            DisplayRewriteVersion(
                              Elements(DictGet(rewrite, "rewrites", PyList(<<>>)))[i])])
               ELSE Shown(<<>>),
               DisplayFixes(DictGet(rewrite, "specific_fixes", PyList(<<>>))),
               WidgetIf("rewrite", "advice", DictGet(rewrite, "general_advice", PyNone))>>)

\* main, lines 288-296: the score header.
DashboardHeader(risk) ==
  IF risk.t # "dict" THEN Faulted("AttributeError")
  ELSE IF HeaderBanner(DictGet(risk, "overall_risk_score", PyInt(0))).t = "raise"
  THEN Faulted(HeaderBanner(DictGet(risk, "overall_risk_score", PyInt(0))).kind)
  ELSE Widget("header", "banner",
              <<HeaderBanner(DictGet(risk, "overall_risk_score", PyInt(0))),
                DictGet(risk, "overall_risk_score", PyInt(0))>>)

\* main, lines 285-314: what the page shows for a result.
RenderPage(res) ==
  Chain(<<DashboardHeader(DictGet(PyDict(res), "risk", PyDict(EmptyMap))),
          DisplayIntent(DictGet(PyDict(res), "intent", PyDict(EmptyMap))),
          DisplayEmotion(DictGet(PyDict(res), "emotion", PyDict(EmptyMap))),
          DisplayRisk(DictGet(PyDict(res), "risk", PyDict(EmptyMap))),
          IF "rewrite" \in DOMAIN res
          THEN DisplayRewrite(res["rewrite"])
          ELSE Widget("rewrite", "low_risk", <<>>)>>)

(***************************************************************************)
(* Inputs: the command lines, the files, the typed lines and the           *)
(* completion service's answers the model draws from.                      *)
(***************************************************************************)
MaxLines == 2

Files == {"Fine.", " ---\n a \n------b --- ", "---", "x---y---z"}
Messages == {"Fine. I guess.", " ", ""}
Lines == {"hi", "", "  ", "Quit"}

IntentTexts == {"{\"primary_intent\": \"ask\"}", " I cannot. ", "[1]"}
EmotionTexts == {"~~~json\n{\"emotional_leakage\": {\"detected\": true}}\n~~~",
                 "{\"emotional_leakage\": null}", "oops"}
RiskTexts == {"{\"overall_risk_score\": 3}",
              "Here:\n~~~json\n{\"overall_risk_score\": 4, \"red_flags\": [{\"phrase\": \"Fine\"}]}\n~~~\n",
              "{\"overall_risk_score\": 8, \"red_flags\": [\"Fine\"]}",
              "{\"overall_risk_score\": \"8\"}",
              "{\"overall_risk_score\": null}",
              "{\"risk_level\": \"high\"}",
              "{\"overall_risk_score\": true}",
              "[8]", "8", "n/a"}
RewriteTexts == {"{\"needs_rewrite\": true}", "~~~\nnope\n~~~", "null"}

Outcomes(texts) == {Completion(text) : text \in texts} \cup {APIError}

NoOption == PyNone

CommandLines ==
  {[interactive |-> i, file |-> f, message |-> m, no_rewrite |-> n] :
     i \in BOOLEAN, f \in {NoOption} \cup {PyStr(c) : c \in Files},
     m \in {NoOption} \cup {PyStr(c) : c \in Messages}, n \in BOOLEAN}

\* The command lines tried: at most one of -i, -f, -m, or all three.
TriedCommandLines ==
  {c \in CommandLines :
     \/ (IF c.interactive THEN 1 ELSE 0) + (IF c.file # NoOption THEN 1 ELSE 0)
          + (IF c.message # NoOption THEN 1 ELSE 0) <= 1
     \/ c.interactive /\ c.file = PyStr("x---y---z") /\ c.message = PyStr("Fine. I guess.")}

NoCommandLine == [interactive |-> FALSE, file |-> NoOption, message |-> NoOption, no_rewrite |-> FALSE]

(***************************************************************************)
(* State.                                                                  *)
(***************************************************************************)
VARIABLES
  front,      \* "cli" (app.py) or "dashboard" (streamlit_app.py)
  argv,       \* the command line's options
  pc,         \* where the front end is
  cur,        \* the message being analyzed
  results,    \* the orchestrator's results mapping
  log,        \* this run's agent calls, requests, returns and raises, in order
  fault,      \* the class of the exception that left the run, or "none"
  analyzed,   \* the messages the orchestrator was run on, in order
  displayed,  \* the messages whose results were displayed, in order
  screen,     \* the widgets the front end has shown since the run at hand began
  messages,   \* file mode: the file's messages
  idx,        \* file mode: the index of the message at hand
  lines,      \* the lines read (interactive) or clicks handled (dashboard)
  user_message, \* the line input() returned last, or the text area's text at the last click
  p_in,       \* _parse_json_response alone: the payload and the prose around it
  p_out,      \* _parse_json_response alone: per wrapping, the text and the value returned
  b_score,    \* the band selections alone: the score they are applied to
  b_out,      \* the band selections alone: per selection, the band it gave
  o_in,       \* the orchestrators side by side: the message and the responses
  o_out       \* the orchestrators side by side: per orchestrator, what its run did

pipeline == <<front, argv, pc, cur, results, log, fault, analyzed, displayed, screen, messages, idx, lines, user_message>>
parsing == <<p_in, p_out>>
banding == <<b_score, b_out>>
pairing == <<o_in, o_out>>
vars == <<pipeline, parsing, banding, pairing>>

NoRun == [message |-> "", outcomes |-> <<>>]
NoInput == [payload |-> "", before |-> "", after |-> ""]

Init ==
  /\ \/ front = "cli" /\ argv \in TriedCommandLines
     \/ front = "dashboard" /\ argv = NoCommandLine
  /\ pc = IF front = "cli" THEN "main" ELSE "click"
  /\ cur = ""
  /\ results = EmptyMap
  /\ log = <<>>
  /\ fault = "none"
  /\ analyzed = <<>>
  /\ displayed = <<>>
  /\ screen = <<>>
  /\ messages = <<>>
  /\ idx = 1
  /\ lines = 0
  /\ user_message = ""
  /\ p_in = NoInput
  /\ p_out = EmptyMap
  /\ b_score = 0
  /\ b_out = EmptyMap
  /\ o_in = NoRun /\ o_out = EmptyMap

StagePcs == {"intent", "emotion", "risk", "gate", "rewrite"}

\* NewResults that keeps the mapping of the run before.
NewResultsKeeps(old) == old

\* analyze line 38 / run_analysis line 50: results = {}
NewResults(old) == EmptyMap

\* The call of the orchestrator on msg: a new run starts.
BeginAnalyze(msg) ==
  /\ cur' = msg
  /\ results' = NewResults(results)
  /\ log' = <<>>
  /\ analyzed' = Append(analyzed, msg)
  /\ screen' = <<>>
  /\ pc' = "intent"

\* AfterRaise with an interactive handler that takes every exception and
\* reads the next line.
AfterRaiseCatchAll(kind) ==
  IF front = "cli" /\ argv.interactive
  THEN (IF kind \in {"EOFError", "KeyboardInterrupt"} THEN "exit" ELSE "input")
  ELSE "crash"

\* Where an exception of class kind leaving the run ends: the interactive
\* loop's handler (lines 269-271) takes EOFError and KeyboardInterrupt and
\* leaves the loop; nothing else is caught anywhere.
AfterRaise(kind) ==
  IF front = "cli" /\ argv.interactive /\ kind \in {"EOFError", "KeyboardInterrupt"}
  THEN "exit" ELSE "crash"

\* NextStage with the emotion stage run again after the risk stage.
NextStageRepeats(stage) ==
  CASE stage = "intent" -> "emotion"
    [] stage = "emotion" -> "risk"
    [] stage = "risk" -> "emotion"
    [] stage = "rewrite" -> "display"

\* The order of the stages of analyze (app.py lines 40-60).
NextStage(stage) ==
  CASE stage = "intent" -> "emotion"
    [] stage = "emotion" -> "risk"
    [] stage = "risk" -> "gate"
    [] stage = "rewrite" -> "display"

\* RiskContext without the emotion result.
RiskContextIntentOnly(res) == PyDict([intent |-> res["intent"]])

\* analyze, lines 50-53 / run_analysis, lines 59-62: the context of Risk.
RiskContext(res) == PyDict([intent |-> res["intent"], emotion |-> res["emotion"]])

\* analyze, line 60 / run_analysis, line 67: the context of Rewrite is the
\* results mapping itself.
RewriteContext(res) == PyDict(res)

\* A stage's agent has answered r: store its value under key, or leave by
\* its fault.
StageDone(key, r) ==
  /\ log' = log \o r.log
  /\ IF r.out.t = "raise"
     THEN /\ fault' = r.out.kind
          /\ pc' = AfterRaise(r.out.kind)
          /\ UNCHANGED results
     ELSE /\ results' = (key :> r.out) @@ results
          /\ pc' = NextStage(key)
          /\ UNCHANGED fault
  /\ UNCHANGED <<front, argv, cur, analyzed, displayed, screen, messages, idx, lines, user_message, parsing, banding, pairing>>

(***************************************************************************)
(* app.py: main and CommunicationGuard.analyze                             *)
(***************************************************************************)
\* main, lines 246-300: the dispatch on the options.
Main ==
  /\ pc = "main"
  /\ IF argv.interactive
     THEN /\ pc' = "input"
          /\ UNCHANGED <<cur, results, log, analyzed, screen, messages>>
     ELSE IF Truthy(argv.file)
     THEN /\ messages' = FileMessages(argv.file.s)
          /\ pc' = "loop"
          /\ UNCHANGED <<cur, results, log, analyzed, screen>>
     ELSE IF Truthy(argv.message)
     THEN /\ BeginAnalyze(argv.message.s)
          /\ UNCHANGED messages
     ELSE /\ pc' = "exit"
          /\ screen' = Widget("main", "usage", <<>>).shown
          /\ UNCHANGED <<cur, results, log, analyzed, messages>>
  /\ UNCHANGED <<front, argv, fault, displayed, idx, lines, user_message, parsing, banding, pairing>>

\* IsQuit without the lower().
IsQuitCaseSensitive(line) == line \in {"quit", "exit", "q"}

\* main, line 256: user_message.lower() in ("quit", "exit", "q")
IsQuit(line) == Lower(line) \in {"quit", "exit", "q"}

\* main, lines 253-264: one line read in interactive mode.
Input ==
  /\ pc = "input"
  /\ lines < MaxLines
  /\ \E line \in Lines :
       /\ lines' = lines + 1
       /\ user_message' = line
       /\ IF IsQuit(line)
          THEN /\ pc' = "exit"
               /\ UNCHANGED <<cur, results, log, analyzed, screen>>
          ELSE IF Strip(line) = ""
          THEN /\ pc' = "input"
               /\ UNCHANGED <<cur, results, log, analyzed, screen>>
          ELSE BeginAnalyze(line)
  /\ UNCHANGED <<front, argv, fault, displayed, messages, idx, parsing, banding, pairing>>

\* main, lines 254, 269-271: input() raises EOFError or KeyboardInterrupt.
InputEnds ==
  /\ pc = "input"
  /\ \E kind \in {"EOFError", "KeyboardInterrupt"} :
       /\ fault' = kind
       /\ pc' = AfterRaise(kind)
  /\ UNCHANGED <<front, argv, cur, results, log, analyzed, displayed, screen, messages, idx, lines, user_message, parsing, banding, pairing>>

\* main, lines 280-285: the head of the loop over the file's messages.
FileLoop ==
  /\ pc = "loop"
  /\ IF idx <= Len(messages)
     THEN BeginAnalyze(messages[idx])
     ELSE /\ pc' = "exit"
          /\ UNCHANGED <<cur, results, log, analyzed, screen>>
  /\ UNCHANGED <<front, argv, fault, displayed, messages, idx, lines, user_message, parsing, banding, pairing>>

\* analyze, lines 40-42
AnalyzeIntent ==
  /\ front = "cli" /\ pc = "intent"
  /\ \E outcome \in Outcomes(IntentTexts) :
       StageDone("intent", IntentAgentAnalyze(cur, PyNone, outcome))

\* analyze, lines 44-46
AnalyzeEmotion ==
  /\ front = "cli" /\ pc = "emotion"
  /\ \E outcome \in Outcomes(EmotionTexts) :
       StageDone("emotion", EmotionAgentAnalyze(cur, PyNone, outcome))

\* analyze, lines 48-53
AnalyzeRisk ==
  /\ front = "cli" /\ pc = "risk"
  /\ \E outcome \in Outcomes(RiskTexts) :
       StageDone("risk", RiskAgentAnalyze(cur, RiskContext(results), outcome))

\* The gate has been decided: go on to the rewrite stage, return, or leave
\* by the fault.
GateDone(open) ==
  /\ IF open.t = "raise"
     THEN /\ log' = Append(log, [ev |-> "raise", agent |-> "orchestrator", kind |-> open.kind])
          /\ fault' = open.kind
          /\ pc' = AfterRaise(open.kind)
     ELSE /\ log' = Append(log, [ev |-> "gate", open |-> open.b])
          /\ pc' = IF open.b THEN "rewrite" ELSE "display"
          /\ UNCHANGED fault
  /\ UNCHANGED <<front, argv, cur, results, analyzed, displayed, screen, messages, idx, lines, user_message, parsing, banding, pairing>>

\* IncludeRewrite with the flag ignored.
IncludeRewriteAlways(no_rewrite) == TRUE

\* main, lines 264, 285, 294: include_rewrite=not no_rewrite
IncludeRewrite(no_rewrite) == ~no_rewrite

\* analyze, lines 56-58 and 62
AnalyzeGate ==
  /\ front = "cli" /\ pc = "gate"
  /\ IF IncludeRewrite(argv.no_rewrite)
     THEN GateDone(GateOpen(results["risk"]))
     ELSE /\ pc' = "display"
          /\ UNCHANGED <<front, argv, cur, results, log, fault, analyzed, displayed, screen,
                         messages, idx, lines, user_message, parsing, banding, pairing>>

\* analyze, lines 59-62
AnalyzeRewrite ==
  /\ front = "cli" /\ pc = "rewrite"
  /\ \E outcome \in Outcomes(RewriteTexts) :
       StageDone("rewrite", RewriteAgentAnalyze(cur, RewriteContext(results), outcome))

\* KeyboardInterrupt while analyze runs (the CLI's process gets SIGINT).
Interrupt ==
  /\ front = "cli" /\ pc \in StagePcs
  /\ log' = Append(log, [ev |-> "raise", agent |-> "orchestrator", kind |-> "KeyboardInterrupt"])
  /\ fault' = "KeyboardInterrupt"
  /\ pc' = AfterRaise("KeyboardInterrupt")
  /\ UNCHANGED <<front, argv, cur, results, analyzed, displayed, screen, messages, idx, lines, user_message, parsing, banding, pairing>>

\* The renderer has run on this run's result: its widgets are on the
\* screen; it returned and the front end goes on at next, or its fault
\* leaves the front end.
Rendered(rendering, next) ==
  /\ screen' = rendering.shown
  /\ IF rendering.fault = "none"
     THEN /\ displayed' = Append(displayed, cur)
          /\ pc' = next
          /\ UNCHANGED fault
     ELSE /\ fault' = rendering.fault
          /\ pc' = AfterRaise(rendering.fault)
          /\ UNCHANGED displayed
  /\ UNCHANGED <<front, argv, cur, results, log, analyzed, messages, lines, user_message, parsing, banding, pairing>>

\* main, lines 266-267, 287-290, 296: the results are displayed and the
\* front end goes on.
Display ==
  /\ front = "cli" /\ pc = "display"
  /\ Rendered(DisplayResults(cur, results),
              IF argv.interactive THEN "input" ELSE IF Truthy(argv.file) THEN "loop" ELSE "exit")
  /\ idx' = IF ~argv.interactive /\ Truthy(argv.file) /\ pc' = "loop" THEN idx + 1 ELSE idx

(***************************************************************************)
(* streamlit_app.py: main and run_analysis                                 *)
(***************************************************************************)
\* main, lines 270-283, 316-317: the Analyze button is pressed.
Click ==
  /\ front = "dashboard" /\ pc = "click"
  /\ lines < MaxLines
  /\ \E message \in Messages :
       /\ lines' = lines + 1
       /\ user_message' = message
       /\ IF Strip(message) # ""
          THEN BeginAnalyze(message)
          ELSE /\ pc' = "click"
               /\ screen' = Widget("main", "please_enter", <<>>).shown
               /\ UNCHANGED <<cur, results, log, analyzed>>
  /\ UNCHANGED <<front, argv, fault, displayed, messages, idx, parsing, banding, pairing>>

\* run_analysis, line 53
RunAnalysisIntent ==
  /\ front = "dashboard" /\ pc = "intent"
  /\ \E outcome \in Outcomes(IntentTexts) :
       StageDone("intent", IntentAgentAnalyze(cur, PyNone, outcome))

\* run_analysis, line 56
RunAnalysisEmotion ==
  /\ front = "dashboard" /\ pc = "emotion"
  /\ \E outcome \in Outcomes(EmotionTexts) :
       StageDone("emotion", EmotionAgentAnalyze(cur, PyNone, outcome))

\* run_analysis, lines 59-62
RunAnalysisRisk ==
  /\ front = "dashboard" /\ pc = "risk"
  /\ \E outcome \in Outcomes(RiskTexts) :
       StageDone("risk", RiskAgentAnalyze(cur, RiskContext(results), outcome))

\* run_analysis, lines 65-66 and 69
RunAnalysisGate ==
  /\ front = "dashboard" /\ pc = "gate"
  /\ GateDone(GateOpen(results["risk"]))

\* run_analysis, lines 67-69
RunAnalysisRewrite ==
  /\ front = "dashboard" /\ pc = "rewrite"
  /\ \E outcome \in Outcomes(RewriteTexts) :
       StageDone("rewrite", RewriteAgentAnalyze(cur, RewriteContext(results), outcome))

\* main, lines 285-314: the results are rendered; the page waits again.
Render ==
  /\ front = "dashboard" /\ pc = "display"
  /\ Rendered(RenderPage(results), "click")
  /\ UNCHANGED idx

Next ==
  \/ Main \/ Input \/ InputEnds \/ FileLoop
  \/ AnalyzeIntent \/ AnalyzeEmotion \/ AnalyzeRisk \/ AnalyzeGate \/ AnalyzeRewrite
  \/ Interrupt \/ Display
  \/ Click
  \/ RunAnalysisIntent \/ RunAnalysisEmotion \/ RunAnalysisRisk \/ RunAnalysisGate
  \/ RunAnalysisRewrite \/ Render

Spec == Init /\ [][Next]_vars

(***************************************************************************)
(* _parse_json_response alone: a payload and the prose around it are       *)
(* drawn, and the function is applied to each wrapping of the payload.     *)
(***************************************************************************)
Payloads == {"{\"a\": 1}", "{}", "{\"b\": [1, \"x\"], \"c\": null}", "{\"k\": \"~~~\"}",
             "[1]", "{\"a\": }", "oops", ""}
Befores == {"", "Sure:\n", " \n"}
Afters == {"", "\nDone.", " "}

\* The response texts built from the drawn input, by wrapping.
Wrapped(in, wrapping) ==
  CASE wrapping = "labelled" -> in.before \o "~~~json\n" \o in.payload \o "\n~~~" \o in.after
    [] wrapping = "unlabelled" -> "~~~\n" \o in.payload \o "\n~~~"
    [] wrapping = "bare" -> in.payload
    [] wrapping = "between" -> in.before \o in.payload \o in.after

ParseInit ==
  /\ front = "none" /\ argv = NoCommandLine /\ pc = "off" /\ cur = ""
  /\ results = EmptyMap /\ log = <<>> /\ fault = "none"
  /\ analyzed = <<>> /\ displayed = <<>> /\ screen = <<>> /\ messages = <<>> /\ idx = 1 /\ lines = 0 /\ user_message = ""
  /\ p_in \in [payload : Payloads, before : Befores, after : Afters]
  /\ p_out = EmptyMap
  /\ b_score = 0
  /\ b_out = EmptyMap
  /\ o_in = NoRun /\ o_out = EmptyMap

\* _parse_json_response is applied to one wrapping of the payload.
Apply(wrapping) ==
  /\ wrapping \notin DOMAIN p_out
  /\ \E text \in {Wrapped(p_in, wrapping)} :
       p_out' = (wrapping :> [text |-> text, out |-> ParseJsonResponse(text)]) @@ p_out
  /\ UNCHANGED <<pipeline, p_in, banding, pairing>>

ApplyLabelled == Apply("labelled")
ApplyUnlabelled == Apply("unlabelled")
ApplyBare == Apply("bare")
ApplyBetween == Apply("between")

ParseNext == ApplyLabelled \/ ApplyUnlabelled \/ ApplyBare \/ ApplyBetween

ParseSpec == ParseInit /\ [][ParseNext]_vars

(***************************************************************************)
(* The band selections alone: a score is drawn and each of the three       *)
(* selections is applied to it.                                            *)
(***************************************************************************)
MaxScore == 12

Scores == (0 - MaxScore)..MaxScore

BandInit ==
  /\ front = "none" /\ argv = NoCommandLine /\ pc = "off" /\ cur = ""
  /\ results = EmptyMap /\ log = <<>> /\ fault = "none"
  /\ analyzed = <<>> /\ displayed = <<>> /\ screen = <<>> /\ messages = <<>> /\ idx = 1 /\ lines = 0 /\ user_message = ""
  /\ p_in = NoInput /\ p_out = EmptyMap
  /\ b_score \in Scores
  /\ b_out = EmptyMap
  /\ o_in = NoRun /\ o_out = EmptyMap

\* One selection is applied to the score; band is what it gave.
Selected(selection, band) ==
  /\ selection \notin DOMAIN b_out
  /\ b_out' = (selection :> band) @@ b_out
  /\ UNCHANGED <<pipeline, parsing, b_score, pairing>>

SelectTerminal == Selected("terminal", GetRiskColor(PyInt(b_score)))
SelectDashboard == Selected("dashboard", DashboardGetRiskColor(PyInt(b_score)))
SelectBanner == Selected("banner", HeaderBanner(PyInt(b_score)))

BandNext == SelectTerminal \/ SelectDashboard \/ SelectBanner

BandSpec == BandInit /\ [][BandNext]_vars

(***************************************************************************)
(* The orchestrators side by side: a message and the responses of the      *)
(* completion service are drawn, and each orchestrator is called on them.  *)
(* The k-th call of an agent gets outcomes[k].                             *)
(***************************************************************************)
\* CommunicationGuard.analyze, app.py lines 28-62, as one call: log is what
\* the run did, out the mapping returned or the fault that left the run.
Analyze(message, include_rewrite, outcomes) ==
  LET AfterRewrite(results3, log4, rewrite) ==
        IF rewrite.out.t = "raise" THEN [log |-> log4 \o rewrite.log, out |-> rewrite.out]
        ELSE [log |-> log4 \o rewrite.log,
              out |-> PyDict(("rewrite" :> rewrite.out) @@ results3)]
      AfterGate(results3, log3, open) ==
        IF open.t = "raise"
        THEN [log |-> Append(log3, [ev |-> "raise", agent |-> "orchestrator", kind |-> open.kind]),
              out |-> open]
        ELSE IF ~open.b
        THEN [log |-> Append(log3, [ev |-> "gate", open |-> FALSE]), out |-> PyDict(results3)]
        ELSE AfterRewrite(results3, Append(log3, [ev |-> "gate", open |-> TRUE]),
                          RewriteAgentAnalyze(message, PyDict(results3), outcomes[4]))
      AfterRisk(intent, emotion, risk) ==
        IF risk.out.t = "raise"
        THEN [log |-> intent.log \o emotion.log \o risk.log, out |-> risk.out]
        ELSE IF ~include_rewrite
        THEN [log |-> intent.log \o emotion.log \o risk.log,
              out |-> PyDict([intent |-> intent.out, emotion |-> emotion.out,
                              risk |-> risk.out])]
        ELSE AfterGate([intent |-> intent.out, emotion |-> emotion.out, risk |-> risk.out],
                       intent.log \o emotion.log \o risk.log, GateOpen(risk.out))
      AfterEmotion(intent, emotion) ==
        IF emotion.out.t = "raise"
        THEN [log |-> intent.log \o emotion.log, out |-> emotion.out]
        ELSE AfterRisk(intent, emotion,
                       RiskAgentAnalyze(message,
                                        PyDict([intent |-> intent.out, emotion |-> emotion.out]),
                                        outcomes[3]))
      AfterIntent(intent) ==
        IF intent.out.t = "raise" THEN [log |-> intent.log, out |-> intent.out]
        ELSE AfterEmotion(intent, EmotionAgentAnalyze(message, PyNone, outcomes[2]))
  IN  AfterIntent(IntentAgentAnalyze(message, PyNone, outcomes[1]))

\* RunAnalysis with the Risk agent given the intent result alone.
RunAnalysisIntentContext(message, outcomes) ==
  LET Returned4(res, before, rewrite) ==
        IF rewrite.out.t = "raise" THEN [log |-> before \o rewrite.log, out |-> rewrite.out]
        ELSE [log |-> before \o rewrite.log, out |-> PyDict(("rewrite" :> rewrite.out) @@ res)]
      Decided(res, before, open) ==
        IF open.t = "raise"
        THEN [log |-> Append(before, [ev |-> "raise", agent |-> "orchestrator", kind |-> open.kind]),
              out |-> open]
        ELSE IF open.b
        THEN Returned4(res, Append(before, [ev |-> "gate", open |-> TRUE]),
                       RewriteAgentAnalyze(message, PyDict(res), outcomes[4]))
        ELSE [log |-> Append(before, [ev |-> "gate", open |-> FALSE]), out |-> PyDict(res)]
      Scored(res, before, risk_score) ==
        Decided(res, before, IF risk_score.t = "raise" THEN risk_score
                             ELSE AtLeast(risk_score, RewriteThreshold))
      Stored3(res, before, risk) ==
        IF risk.out.t = "raise" THEN [log |-> before \o risk.log, out |-> risk.out]
        ELSE Scored(("risk" :> risk.out) @@ res, before \o risk.log, ScoreOf(risk.out))
      Stored2(res, before) ==
        Stored3(res, before,
                RiskAgentAnalyze(message, PyDict([intent |-> res["intent"]]),
                                 outcomes[3]))
      Stored1(res, before, emotion) ==
        IF emotion.out.t = "raise" THEN [log |-> before \o emotion.log, out |-> emotion.out]
        ELSE Stored2(("emotion" :> emotion.out) @@ res, before \o emotion.log)
      Started(intent) ==
        IF intent.out.t = "raise" THEN [log |-> intent.log, out |-> intent.out]
        ELSE Stored1(("intent" :> intent.out) @@ EmptyMap, intent.log,
                     EmotionAgentAnalyze(message, PyNone, outcomes[2]))
  IN  Started(IntentAgentAnalyze(message, PyNone, outcomes[1]))

\* run_analysis, streamlit_app.py lines 48-69, as one call: the results
\* mapping grows key by key (lines 53, 56, 59, 67); the gate is lines 65-66.
RunAnalysis(message, outcomes) ==
  LET Returned4(res, before, rewrite) ==
        IF rewrite.out.t = "raise" THEN [log |-> before \o rewrite.log, out |-> rewrite.out]
        ELSE [log |-> before \o rewrite.log, out |-> PyDict(("rewrite" :> rewrite.out) @@ res)]
      Decided(res, before, open) ==
        IF open.t = "raise"
        THEN [log |-> Append(before, [ev |-> "raise", agent |-> "orchestrator", kind |-> open.kind]),
              out |-> open]
        ELSE IF open.b
        THEN Returned4(res, Append(before, [ev |-> "gate", open |-> TRUE]),
                       RewriteAgentAnalyze(message, PyDict(res), outcomes[4]))
        ELSE [log |-> Append(before, [ev |-> "gate", open |-> FALSE]), out |-> PyDict(res)]
      Scored(res, before, risk_score) ==
        Decided(res, before, IF risk_score.t = "raise" THEN risk_score
                             ELSE AtLeast(risk_score, RewriteThreshold))
      Stored3(res, before, risk) ==
        IF risk.out.t = "raise" THEN [log |-> before \o risk.log, out |-> risk.out]
        ELSE Scored(("risk" :> risk.out) @@ res, before \o risk.log, ScoreOf(risk.out))
      Stored2(res, before) ==
        Stored3(res, before,
                RiskAgentAnalyze(message, PyDict([intent |-> res["intent"],
                                         emotion |-> res["emotion"]]),
                                 outcomes[3]))
      Stored1(res, before, emotion) ==
        IF emotion.out.t = "raise" THEN [log |-> before \o emotion.log, out |-> emotion.out]
        ELSE Stored2(("emotion" :> emotion.out) @@ res, before \o emotion.log)
      Started(intent) ==
        IF intent.out.t = "raise" THEN [log |-> intent.log, out |-> intent.out]
        ELSE Stored1(("intent" :> intent.out) @@ EmptyMap, intent.log,
                     EmotionAgentAnalyze(message, PyNone, outcomes[2]))
  IN  Started(IntentAgentAnalyze(message, PyNone, outcomes[1]))

\* The responses drawn: one per agent call, in the order of the calls.
OutcomeSeqs ==
  {<<a, b, c, d>> : a \in Outcomes(IntentTexts), b \in Outcomes(EmotionTexts),
                    c \in Outcomes(RiskTexts), d \in Outcomes(RewriteTexts)}

PairInit ==
  /\ front = "none" /\ argv = NoCommandLine /\ pc = "off" /\ cur = ""
  /\ results = EmptyMap /\ log = <<>> /\ fault = "none"
  /\ analyzed = <<>> /\ displayed = <<>> /\ screen = <<>> /\ messages = <<>> /\ idx = 1 /\ lines = 0 /\ user_message = ""
  /\ p_in = NoInput /\ p_out = EmptyMap
  /\ b_score = 0 /\ b_out = EmptyMap
  /\ o_in \in [message : {m \in Messages \cup Lines : Strip(m) # ""}, outcomes : OutcomeSeqs]
  /\ o_out = EmptyMap

\* guard.analyze(message, include_rewrite=...) is called on the input.
CallAnalyze ==
  /\ "analyze" \notin DOMAIN o_out
  /\ \E include_rewrite \in BOOLEAN :
       o_out' = ("analyze" :> [include_rewrite |-> include_rewrite,
                               run |-> Analyze(o_in.message, include_rewrite, o_in.outcomes)])
                @@ o_out
  /\ UNCHANGED <<pipeline, parsing, banding, o_in>>

\* run_analysis(message, agents) is called on the input.
CallRunAnalysis ==
  /\ "run_analysis" \notin DOMAIN o_out
  /\ o_out' = ("run_analysis" :> [run |-> RunAnalysis(o_in.message, o_in.outcomes)]) @@ o_out
  /\ UNCHANGED <<pipeline, parsing, banding, o_in>>

PairNext == CallAnalyze \/ CallRunAnalysis

PairSpec == PairInit /\ [][PairNext]_vars

(***************************************************************************)
(* Reading a run's log.                                                    *)
(***************************************************************************)
StageOrder == <<"intent", "emotion", "risk", "rewrite">>
ThreeStages == {"intent", "emotion", "risk"}
FourStages == {"intent", "emotion", "risk", "rewrite"}

IsPrefix(a, b) == Len(a) <= Len(b) /\ \A i \in 1..Len(a) : a[i] = b[i]

\* The positions of the log's events of kind ev, and those of one agent.
At(ev) == {i \in 1..Len(log) : log[i].ev = ev}
AtOf(ev, agent) == {i \in At(ev) : log[i].agent = agent}

\* The agents invoked in this run, in the order of their calls.
Calls == SelectSeq(log, LAMBDA e : e.ev = "call")
CalledAgents == [i \in 1..Len(Calls) |-> Calls[i].agent]

\* The run has rewrite enabled: the dashboard always, the CLI without --no-rewrite.
RewriteEnabled == front = "dashboard" \/ (front = "cli" /\ ~argv.no_rewrite)

\* The orchestrator has returned its results to the front end.
Returned == pc = "display"

(***************************************************************************)
(* C1: in every run of either orchestrator the agents are invoked in the   *)
(* order Intent, Emotion, Risk, then optionally Rewrite: the calls of a    *)
(* run are a prefix of that order (so each stage at most once, nothing     *)
(* after Rewrite), and at every call each earlier call has returned.       *)
(***************************************************************************)
C1_StageOrder ==
  /\ IsPrefix(CalledAgents, StageOrder)
  /\ \A i \in At("call") : \A k \in At("call") :
       k < i => \E j \in AtOf("return", log[k].agent) : k < j /\ j < i

\* Both orchestrators reach the end of a run with all four stages invoked.
C1_Witness == Returned /\ CalledAgents = StageOrder /\ front = "dashboard"

(***************************************************************************)
(* C2: when a run with rewrite enabled returns and the Risk result holds   *)
(* an integer overall_risk_score, the result has the key rewrite exactly   *)
(* when the score is >= 4, and its keys are exactly the three stages, or   *)
(* the four, accordingly.                                                  *)
(***************************************************************************)
IntegerScore ==
  /\ "risk" \in DOMAIN results
  /\ results["risk"].t = "dict"
  /\ "overall_risk_score" \in DOMAIN results["risk"].d
  /\ results["risk"].d["overall_risk_score"].t = "int"

C2_RewriteIffScoreAtLeast4 ==
  (Returned /\ RewriteEnabled /\ IntegerScore) =>
     /\ ("rewrite" \in DOMAIN results) <=> (results["risk"].d["overall_risk_score"].n >= 4)
     /\ DOMAIN results = IF results["risk"].d["overall_risk_score"].n >= 4
                         THEN FourStages ELSE ThreeStages

\* A run returned with score exactly 4 and the rewrite in its result.
C2_Witness ==
  /\ Returned /\ RewriteEnabled /\ IntegerScore
  /\ results["risk"].d["overall_risk_score"].n = 4
  /\ "rewrite" \in DOMAIN results

(***************************************************************************)
(* C3: when the Risk result is a mapping without overall_risk_score, or    *)
(* with one that is not a number, the gate stays closed: once the gate     *)
(* has been evaluated the Rewrite agent was not invoked, no fault left     *)
(* the gate and the result has exactly the keys intent, emotion, risk.     *)
(***************************************************************************)
\* The gate has been evaluated in this run: it decided, or it faulted.
GateEvaluated ==
  \/ At("gate") # {}
  \/ \E i \in AtOf("raise", "orchestrator") : log[i].kind \in {"TypeError", "AttributeError"}

ScoreMissingOrNotANumber ==
  /\ "risk" \in DOMAIN results
  /\ results["risk"].t = "dict"
  /\ \/ "overall_risk_score" \notin DOMAIN results["risk"].d
     \/ results["risk"].d["overall_risk_score"].t \notin {"int", "bool"}

C3_NonNumericScoreClosesGate ==
  (RewriteEnabled /\ ScoreMissingOrNotANumber /\ GateEvaluated) =>
     /\ AtOf("call", "rewrite") = {}
     /\ AtOf("raise", "orchestrator") = {}
     /\ DOMAIN results = ThreeStages

(***************************************************************************)
(* C4: for every JSON object payload P, _parse_json_response returns P     *)
(* parsed for P in a labelled fence with prose around it, for P in an      *)
(* unlabelled fence and for P alone, also when a string of P holds a       *)
(* fence.                                                                  *)
(***************************************************************************)
ObjectPayload == JsonLoads(p_in.payload).ok /\ JsonLoads(p_in.payload).v.t = "dict"

C4_SamePayloadFromEveryWrapping ==
  ObjectPayload =>
    \A w \in DOMAIN p_out \cap {"labelled", "unlabelled", "bare"} :
      p_out[w].out = JsonLoads(p_in.payload).v

(***************************************************************************)
(* C5: for every response text whose candidate (labelled fence content,    *)
(* else first fence content, else the whole text) is not valid JSON,       *)
(* _parse_json_response returns a mapping with exactly the keys error and  *)
(* raw, and raw is the response text as it was given.                      *)
(***************************************************************************)
C5_ErrorValueKeepsRawText ==
  \A w \in DOMAIN p_out :
    ~JsonLoads(Candidate(p_out[w].text)).ok =>
      /\ p_out[w].out.t = "dict"
      /\ DOMAIN p_out[w].out.d = {"error", "raw"}
      /\ p_out[w].out.d["raw"] = PyStr(p_out[w].text)

\* An unparseable text that strip() would change has been parsed.
C5_Witness ==
  \E w \in DOMAIN p_out :
    /\ ~JsonLoads(Candidate(p_out[w].text)).ok
    /\ Strip(p_out[w].text) # p_out[w].text
    /\ p_out[w].out.d["raw"] = PyStr(p_out[w].text)

(***************************************************************************)
(* C6: every agent's analyze returns a mapping for every completion        *)
(* response, so the gate's look-up on the Risk result never faults.        *)
(***************************************************************************)
C6_EveryStageResultIsAMapping ==
  /\ \A i \in At("return") : log[i].value.t = "dict"
  /\ \A i \in AtOf("raise", "orchestrator") : log[i].kind # "AttributeError"

(***************************************************************************)
(* C7: Risk is invoked with a context holding exactly the Intent and the   *)
(* Emotion result this run produced, and Rewrite with a context holding    *)
(* exactly this run's Intent, Emotion and Risk results.                    *)
(***************************************************************************)
\* The value the agent returned in this run.
ReturnedValue(agent) == log[CHOOSE i \in AtOf("return", agent) : TRUE].value

HoldsExactly(context, stages) ==
  /\ context.t = "dict"
  /\ DOMAIN context.d = stages
  /\ \A k \in stages : AtOf("return", k) # {} /\ context.d[k] = ReturnedValue(k)

C7_ContextIsThisRunsResults ==
  /\ \A i \in AtOf("call", "risk") : HoldsExactly(log[i].context, {"intent", "emotion"})
  /\ \A i \in AtOf("call", "rewrite") : HoldsExactly(log[i].context, ThreeStages)

\* The CLI's Rewrite agent has been invoked in a second run of a session.
C7_Witness == front = "cli" /\ AtOf("call", "rewrite") # {} /\ Len(analyzed) = 2

(***************************************************************************)
(* C8: a parse failure in Intent, Emotion or Risk does not stop the run:   *)
(* the agent returns the error value, it is stored under the stage's key,  *)
(* the next thing the run does is invoke the next stage (after Risk: find  *)
(* the gate closed), and a returned result holds intent, emotion and risk. *)
(***************************************************************************)
Unparseable(content) == ~JsonLoads(Strip(Candidate(content))).ok

\* What the run does next after the stage's agent has returned.
FollowsStage(agent, e) ==
  \/ agent = "intent" /\ e.ev = "call" /\ e.agent = "emotion"
  \/ agent = "emotion" /\ e.ev = "call" /\ e.agent = "risk"
  \/ agent = "risk" /\ e.ev = "gate" /\ ~e.open
  \/ e.ev = "raise" /\ e.kind = "KeyboardInterrupt"

\* Where the run stands once the stage's agent has returned.
PcAfter(agent) ==
  CASE agent = "intent" -> {"emotion"}
    [] agent = "emotion" -> {"risk"}
    [] agent = "risk" -> {"gate"}

C8_ParseFailureDoesNotStopRun ==
  /\ \A i \in At("response") :
       (log[i].agent \in ThreeStages /\ Unparseable(log[i].content)) =>
          /\ i < Len(log)
          /\ log[i + 1].ev = "return"
          /\ log[i + 1].value.t = "dict"
          /\ "error" \in DOMAIN log[i + 1].value.d
          /\ log[i].agent \in DOMAIN results
          /\ results[log[i].agent] = log[i + 1].value
          /\ IF i + 1 < Len(log) THEN FollowsStage(log[i].agent, log[i + 2])
             ELSE pc \in PcAfter(log[i].agent) \/ (log[i].agent = "risk" /\ ~RewriteEnabled)
  /\ Returned => ThreeStages \subseteq DOMAIN results

\* A run returned all four keys although Intent's response did not parse.
C8_Witness ==
  /\ Returned
  /\ DOMAIN results = FourStages
  /\ "error" \in DOMAIN results["intent"].d
  /\ \E i \in AtOf("response", "intent") : Unparseable(log[i].content)

(***************************************************************************)
(* C9: a fault of the completion service is never caught or retried: each  *)
(* agent call makes one request; the fault is the last thing of its run,   *)
(* it leaves the front end (the process ends), the faulting stage has no   *)
(* result, the run's message is never displayed, and nothing runs after.   *)
(***************************************************************************)
ApiFaultAt == {i \in At("raise") : log[i].kind = "APIError"}

C9_ApiFaultEndsEverything ==
  /\ \A a \in FourStages :
       /\ Cardinality(AtOf("request", a)) <= 1
       /\ (AtOf("response", a) # {} \/ (ApiFaultAt \cap AtOf("raise", a)) # {})
            => Cardinality(AtOf("request", a)) = 1
  /\ \A i \in ApiFaultAt :
       /\ i = Len(log)
       /\ log[i - 1].ev = "request" /\ log[i - 1].agent = log[i].agent
       /\ fault = "APIError"
       /\ pc = "crash"
       /\ log[i].agent \notin DOMAIN results
       /\ Len(displayed) = Len(analyzed) - 1
       /\ ~ENABLED Next

\* The service faulted in interactive mode, and in file mode with messages left.
C9_Witness ==
  /\ fault = "APIError" /\ front = "cli"
  /\ ~argv.interactive /\ Truthy(argv.file) /\ idx < Len(messages)

(***************************************************************************)
(* C10: in file mode the orchestrator runs once per non-empty segment of   *)
(* the file, in file order, each result displayed before the next run      *)
(* starts; each run starts from an empty result, and its calls, prompts    *)
(* and result come from its own segment and its own responses only.        *)
(***************************************************************************)
\* The file's segments: split on "---", stripped, the empty ones dropped.
Segments(content) == NonEmptyStripped(Split(content, "---"))

FileMode == front = "cli" /\ ~argv.interactive /\ Truthy(argv.file) /\ pc # "main"

\* The completion text the agent received in this run.
ResponseTo(agent) == log[CHOOSE i \in AtOf("response", agent) : TRUE].content

C10_OneIndependentRunPerSegment ==
  FileMode =>
    /\ IsPrefix(analyzed, Segments(argv.file.s))
    /\ IsPrefix(displayed, analyzed)
    /\ pc \in StagePcs \cup {"display"} =>
         /\ Len(displayed) = Len(analyzed) - 1
         /\ cur = Segments(argv.file.s)[Len(analyzed)]
         /\ \A i \in At("call") : log[i].message = cur
         /\ \A i \in At("request") : log[i].prompt.message = cur
         /\ DOMAIN results = {a \in FourStages : AtOf("return", a) # {}}
         /\ \A a \in DOMAIN results : results[a] = ParseJsonResponse(ResponseTo(a))
    /\ pc = "intent" => results = EmptyMap /\ log = <<>>
    /\ pc \in {"loop", "exit"} => displayed = analyzed
    /\ (pc = "exit" /\ fault = "none") => analyzed = Segments(argv.file.s)

\* A file with empty segments between its two messages was analyzed to the end.
C10_Witness ==
  /\ FileMode /\ pc = "exit" /\ fault = "none"
  /\ Len(Split(argv.file.s, "---")) > 2
  /\ Len(displayed) = 2
  /\ "rewrite" \notin DOMAIN results

(***************************************************************************)
(* C11: for every integer score the terminal's get_risk_color gives green  *)
(* exactly when the dashboard's gives low, exactly when score <= 3; yellow *)
(* exactly when medium, exactly when 4 <= score <= 6; red exactly when     *)
(* high, exactly when score >= 7; and the dashboard's header banner is the *)
(* one of the band the dashboard's get_risk_color gives.                   *)
(***************************************************************************)
BandOf(s) == IF s <= 3 THEN "low" ELSE IF s <= 6 THEN "medium" ELSE "high"

ColorOfBand == [low |-> "green", medium |-> "yellow", high |-> "red"]
BannerOfBand == [low |-> "success", medium |-> "warning", high |-> "error"]

C11_SameBandInBothRenderers ==
  /\ "terminal" \in DOMAIN b_out => b_out["terminal"] = PyStr(ColorOfBand[BandOf(b_score)])
  /\ "dashboard" \in DOMAIN b_out => b_out["dashboard"] = PyStr(BandOf(b_score))
  /\ "banner" \in DOMAIN b_out => b_out["banner"] = PyStr(BannerOfBand[BandOf(b_score)])

C11_Witness ==
  /\ DOMAIN b_out = {"terminal", "dashboard", "banner"}
  /\ b_score = 6
  /\ b_out["terminal"] = PyStr("yellow")

(***************************************************************************)
(* C12: when a renderer has returned from showing a run's result, every    *)
(* stage of the result that is degraded (a mapping with the key error) has *)
(* an error notice on the screen and none of its normal fields, and every  *)
(* other stage has no error notice and exactly the widgets its section     *)
(* gives for it.                                                           *)
(***************************************************************************)
\* The renderer has returned and the screen shows this run's result.
OnScreen ==
  /\ Len(analyzed) > 0 /\ Len(displayed) = Len(analyzed)
  /\ \E i \in 1..Len(screen) : screen[i].section = "header"

Degraded(stage) ==
  /\ stage \in DOMAIN results
  /\ results[stage].t = "dict"
  /\ "error" \in DOMAIN results[stage].d

SectionOf(widgets, stage) == SelectSeq(widgets, LAMBDA x : x.section = stage)

\* What the front end's renderer gives for one stage's result.
SectionAlone(stage) ==
  IF front = "cli"
  THEN CASE stage = "intent" -> TerminalIntent(results[stage])
         [] stage = "emotion" -> TerminalEmotion(results[stage])
         [] stage = "risk" -> TerminalRisk(results[stage])
         [] stage = "rewrite" -> TerminalRewrite(results[stage])
  ELSE CASE stage = "intent" -> DisplayIntent(results[stage])
         [] stage = "emotion" -> DisplayEmotion(results[stage])
         [] stage = "risk" -> DisplayRisk(results[stage])
         [] stage = "rewrite" -> DisplayRewrite(results[stage])

C12_DegradedStageShowsErrorNotice ==
  OnScreen =>
    \A stage \in DOMAIN results :
      LET section == SectionOf(screen, stage)
      IN  IF Degraded(stage)
          THEN /\ Len(section) > 0
               /\ \A i \in 1..Len(section) : section[i].w = "error"
          ELSE /\ \A i \in 1..Len(section) : section[i].w # "error"
               /\ section = SectionAlone(stage).shown

(***************************************************************************)
(* C13: in a CLI run with --no-rewrite the Rewrite agent is never invoked  *)
(* and the result never has the key rewrite, whatever the Risk result is;  *)
(* the score is not read (the gate is not evaluated and nothing faults at  *)
(* it); Intent, Emotion and Risk are invoked in order with the arguments   *)
(* they always get, and a returned result has exactly their three keys.    *)
(***************************************************************************)
SkipFlag == front = "cli" /\ argv.no_rewrite

C13_SkipFlagNeverRewrites ==
  SkipFlag =>
    /\ AtOf("call", "rewrite") = {} /\ pc # "rewrite"
    /\ "rewrite" \notin DOMAIN results
    /\ At("gate") = {}
    /\ \A i \in AtOf("raise", "orchestrator") : log[i].kind = "KeyboardInterrupt"
    /\ IsPrefix(CalledAgents, <<"intent", "emotion", "risk">>)
    /\ \A i \in At("call") :
         /\ log[i].message = cur
         /\ log[i].agent \in {"intent", "emotion"} => log[i].context = PyNone
         /\ log[i].agent = "risk" => HoldsExactly(log[i].context, {"intent", "emotion"})
    /\ Returned => DOMAIN results = ThreeStages

\* A run with the flag returned although its Risk result has score 8.
C13_Witness ==
  /\ SkipFlag /\ Returned /\ IntegerScore
  /\ results["risk"].d["overall_risk_score"].n = 8
  /\ Len(CalledAgents) = 3

(***************************************************************************)
(* C14, as stated: in interactive mode the read loop ends only on an       *)
(* interrupt or end-of-input at the prompt; every line read is skipped if  *)
(* blank and otherwise starts one run whose result is displayed before the *)
(* next prompt; and no step taken while a run is in progress ends the      *)
(* session.                                                                *)
(***************************************************************************)
Interactive == front = "cli" /\ argv.interactive

PromptEnders == {"EOFError", "KeyboardInterrupt"}

\* The step read a line at the prompt.
LineRead == pc = "input" /\ lines' = lines + 1

C14_LoopEndsOnlyOnInterruptOrEof ==
  [][Interactive =>
       /\ (pc = "input" /\ pc' \in {"exit", "crash"}) => (lines' = lines /\ fault' \in PromptEnders)
       /\ LineRead => IF Strip(user_message') = ""
                      THEN pc' = "input" /\ analyzed' = analyzed
                      ELSE pc' = "intent" /\ analyzed' = Append(analyzed, user_message')
       /\ pc \in StagePcs => pc' \in StagePcs \cup {"display"}
       /\ pc = "display" => (pc' = "input" /\ displayed' = Append(displayed, cur))]_vars

(***************************************************************************)
(* C14, amended: in interactive mode the read loop ends on an interrupt,   *)
(* at the prompt or while a run is in progress, on end-of-input, and on a  *)
(* line that is quit, exit or q in any letter case; any other exception of *)
(* a run or of the renderer is not caught and ends the process.  Every     *)
(* other line is skipped if blank after stripping and otherwise starts one *)
(* run on it; when the run and the renderer return, the result has been    *)
(* displayed and the loop prompts again.                                   *)
(***************************************************************************)
C14_HowTheSessionEnds ==
  [][Interactive =>
       /\ (pc = "input" /\ ~LineRead) => (pc' = "exit" /\ fault' \in PromptEnders)
       /\ LineRead =>
            IF Lower(user_message') \in {"quit", "exit", "q"}
            THEN pc' = "exit" /\ analyzed' = analyzed /\ fault' = fault
            ELSE IF Strip(user_message') = ""
            THEN pc' = "input" /\ analyzed' = analyzed
            ELSE pc' = "intent" /\ analyzed' = Append(analyzed, user_message')
       /\ pc \in StagePcs =>
            \/ pc' \in StagePcs \cup {"display"} /\ fault' = fault
            \/ pc' = "exit" /\ fault' = "KeyboardInterrupt"
            \/ pc' = "crash" /\ fault' \notin PromptEnders \cup {"none"}
       /\ pc = "display" =>
            \/ pc' = "input" /\ displayed' = Append(displayed, cur)
            \/ pc' = "crash" /\ fault' \notin PromptEnders \cup {"none"} /\ displayed' = displayed
       /\ pc \in {"exit", "crash"} => pc' = pc]_vars

\* A second line's run was interrupted while in progress, after the first
\* line's result was displayed, and the session is over.
C14_Witness ==
  /\ Interactive /\ pc = "exit" /\ fault = "KeyboardInterrupt"
  /\ Len(displayed) = 1 /\ Len(analyzed) = 2
  /\ AtOf("raise", "orchestrator") # {}

(***************************************************************************)
(* C15: no entry point runs the pipeline on a message that is empty or     *)
(* whitespace-only: every message the orchestrator was run on, and every   *)
(* message an agent was called with, is non-empty after stripping; and a   *)
(* command line without -m, -f and -i runs nothing.                        *)
(***************************************************************************)
NoEntryOption ==
  front = "cli" /\ ~argv.interactive /\ argv.file = NoOption /\ argv.message = NoOption

C15_NoRunOnBlankMessage ==
  /\ \A i \in 1..Len(analyzed) : Strip(analyzed[i]) # ""
  /\ \A i \in At("call") : Strip(log[i].message) # ""
  /\ NoEntryOption => (analyzed = <<>> /\ log = <<>>)


(***************************************************************************)
(* C16                                                                     *)
(***************************************************************************)
BothCalled == {"analyze", "run_analysis"} \subseteq DOMAIN o_out

\* The agent calls of a run, in order: agent, message and context of each.
CallsOf(run) == SelectSeq(run.log, LAMBDA e : e.ev = "call")

\* The stage at which a run was left by a fault, or "none".
FaultStage(run) ==
  IF run.out.t = "raise" THEN run.log[Len(run.log)].agent ELSE "none"

\* C16: for every message and every sequence of responses of the completion
\* service, run_analysis and CommunicationGuard.analyze with
\* include_rewrite=True call the same agents in the same order with the same
\* message and context, and end alike: the same results mapping returned, or
\* the same fault at the same stage.
C16_OrchestratorsEquivalent ==
  (BothCalled /\ o_out["analyze"].include_rewrite) =>
    /\ CallsOf(o_out["analyze"].run) = CallsOf(o_out["run_analysis"].run)
    /\ o_out["analyze"].run.out = o_out["run_analysis"].run.out
    /\ FaultStage(o_out["analyze"].run) = FaultStage(o_out["run_analysis"].run)

\* Both orchestrators were called, analyze with include_rewrite=True, on
\* responses where the Intent stage is degraded, the gate is open and the
\* Rewrite agent is called.
C16_Witness ==
  /\ BothCalled /\ o_out["analyze"].include_rewrite
  /\ Len(CallsOf(o_out["run_analysis"].run)) = 4
  /\ o_out["run_analysis"].run.out.t = "dict"
  /\ "error" \in DOMAIN o_out["run_analysis"].run.out.d["intent"].d

====
